---- MODULE Spec2Model ----
(***************************************************************************)
(* Model of server.py of markitdown-mcp: the conversion entry point        *)
(* _convert_to_markdown, the retrieval entry point _get_markdown_file and  *)
(* their helpers.                                                          *)
(*                                                                         *)
(* A Python str (and a bytes object) is a sequence of one-character        *)
(* strings, so that startswith, endswith, split, normpath, commonpath,     *)
(* urlparse and the utf-8 codec are computed on the characters as the      *)
(* code computes them.                                                     *)
(***************************************************************************)
EXTENDS Integers, Sequences, FiniteSets, TLC

\* bounds of the model
NumRequests == 2
NumTmpNames == 3
MaxTextLen == 1
MaxDepth == 2

\* Python's None, kept apart from every str: no str holds this element.
None == <<"None">>

\* Truthiness of an Optional[str]: `if url:` is false for None and for "".
Truthy(s) == s /= None /\ s /= <<>>

---------------------------------------------------------------------------
(* str methods *)

StartsWith(s, p) == Len(s) >= Len(p) /\ SubSeq(s, 1, Len(p)) = p

EndsWith(s, p) == Len(s) >= Len(p) /\ SubSeq(s, Len(s) - Len(p) + 1, Len(s)) = p

\* index of the first occurrence of character c in s at or after position
\* from, or 0 when there is none (str.find, 1-based)
Find(s, c, from) ==
    IF \E i \in from..Len(s) : s[i] = c
    THEN CHOOSE i \in from..Len(s) : s[i] = c /\ \A j \in from..(i - 1) : s[j] /= c
    ELSE 0

\* index of the last occurrence of character c in s, or 0 (str.rfind)
RFind(s, c) ==
    IF \E i \in 1..Len(s) : s[i] = c
    THEN CHOOSE i \in 1..Len(s) : s[i] = c /\ \A j \in (i + 1)..Len(s) : s[j] /= c
    ELSE 0

RECURSIVE Split(_, _)
\* s.split(c) for a one-character separator
Split(s, c) ==
    LET i == Find(s, c, 1)
    IN IF i = 0 THEN <<s>>
       ELSE <<SubSeq(s, 1, i - 1)>> \o Split(SubSeq(s, i + 1, Len(s)), c)

RECURSIVE Join(_, _)
\* sep.join(parts)
Join(parts, sep) ==
    IF parts = <<>> THEN <<>>
    ELSE IF Len(parts) = 1 THEN parts[1]
    ELSE parts[1] \o sep \o Join(Tail(parts), sep)

RECURSIVE RStrip(_, _)
\* s.rstrip(c)
RStrip(s, c) ==
    IF s /= <<>> /\ s[Len(s)] = c THEN RStrip(SubSeq(s, 1, Len(s) - 1), c) ELSE s

\* [x for x in parts if keep(x)]
Filter(parts, Keep(_)) == SelectSeq(parts, Keep)

---------------------------------------------------------------------------
(* os.path (posixpath) *)

Sep == <<"/">>
CurDir == <<".">>
ParDir == <<".", ".">>

\* the process environment: HOME and the working directory
HomeDir == <<"/", "m", "d", "x">>
Cwd == <<"/", "m", "d">>

\* os.path.expanduser: a leading "~" up to the first "/" is replaced by the
\* home directory; "~user" of a user the password database does not know is
\* left as it is.
expanduser(path) ==
    IF ~StartsWith(path, <<"~">>) THEN path
    ELSE LET f == Find(path, "/", 2)
             i == IF f = 0 THEN Len(path) + 1 ELSE f
         IN IF i /= 2 THEN path
            ELSE LET r == RStrip(HomeDir, "/") \o SubSeq(path, i, Len(path))
                 IN IF r = <<>> THEN Sep ELSE r

RECURSIVE NormComps(_, _, _)
\* the loop of posixpath.normpath over the split components
NormComps(comps, new_comps, initial_slashes) ==
    IF comps = <<>> THEN new_comps
    ELSE LET comp == Head(comps)
             n == Len(new_comps)
         IN IF comp = <<>> \/ comp = CurDir
            THEN NormComps(Tail(comps), new_comps, initial_slashes)
            ELSE IF comp /= ParDir
                    \/ (initial_slashes = 0 /\ n = 0)
                    \/ (n > 0 /\ new_comps[n] = ParDir)
            THEN NormComps(Tail(comps), Append(new_comps, comp), initial_slashes)
            ELSE IF n > 0
            THEN NormComps(Tail(comps), SubSeq(new_comps, 1, n - 1), initial_slashes)
            ELSE NormComps(Tail(comps), new_comps, initial_slashes)

\* "/" * n
Slashes(n) == [i \in 1..n |-> "/"]

normpath(path) ==
    IF path = <<>> THEN CurDir
    ELSE LET initial_slashes ==
                 IF ~StartsWith(path, Sep) THEN 0
                 ELSE IF StartsWith(path, <<"/", "/">>)
                         /\ ~StartsWith(path, <<"/", "/", "/">>) THEN 2
                 ELSE 1
             comps == NormComps(Split(path, "/"), <<>>, initial_slashes)
             p == Slashes(initial_slashes) \o Join(comps, Sep)
         IN IF p = <<>> THEN CurDir ELSE p

normalize_path(filepath) == normpath(expanduser(filepath))

isabs(path) == StartsWith(path, Sep)

KeepComp(c) == c /= <<>> /\ c /= CurDir

RECURSIVE CommonPrefix(_, _)
CommonPrefix(s1, s2) ==
    IF s1 = <<>> \/ s2 = <<>> \/ Head(s1) /= Head(s2) THEN <<>>
    ELSE <<Head(s1)>> \o CommonPrefix(Tail(s1), Tail(s2))

\* os.path.commonpath([p1, p2]) raises ValueError when one path is absolute
\* and the other is relative
commonpath_raises(p1, p2) == isabs(p1) /= isabs(p2)

\* os.path.commonpath([p1, p2]) when it does not raise: the longest common
\* sequence of whole components
commonpath(p1, p2) ==
    LET s1 == Filter(Split(p1, "/"), KeepComp)
        s2 == Filter(Split(p2, "/"), KeepComp)
        prefix == IF isabs(p1) THEN Sep ELSE <<>>
    IN prefix \o Join(CommonPrefix(s1, s2), Sep)

---------------------------------------------------------------------------
(* the utf-8 codec and text-mode reading *)

\* The characters of the model's texts: an ASCII letter, U+00E9 (two bytes
\* in utf-8), carriage return, line feed, and the lone surrogate U+D800,
\* which utf-8 cannot encode.
RECURSIVE encode(_)
\* str.encode(): the utf-8 bytes of a text that holds no lone surrogate
encode(text) ==
    IF text = <<>> THEN <<>>
    ELSE (IF Head(text) = "U+E9" THEN <<"C3", "A9">> ELSE <<Head(text)>>)
         \o encode(Tail(text))

\* str.encode() raises UnicodeEncodeError on a lone surrogate
encode_raises(text) == \E i \in 1..Len(text) : text[i] = "U+D800"

RECURSIVE decode_raises(_)
\* the strict utf-8 decoder raises UnicodeDecodeError on a byte sequence
\* that is not utf-8
decode_raises(bytes) ==
    IF bytes = <<>> THEN FALSE
    ELSE IF Head(bytes) = "C3"
    THEN IF Len(bytes) >= 2 /\ bytes[2] = "A9"
         THEN decode_raises(SubSeq(bytes, 3, Len(bytes)))
         ELSE TRUE
    ELSE IF Head(bytes) \in {"A9", "FF"} THEN TRUE
    ELSE decode_raises(Tail(bytes))

RECURSIVE decode(_)
\* bytes.decode("utf-8") of valid utf-8
decode(bytes) ==
    IF bytes = <<>> THEN <<>>
    ELSE IF Head(bytes) = "C3"
    THEN <<"U+E9">> \o decode(SubSeq(bytes, 3, Len(bytes)))
    ELSE <<Head(bytes)>> \o decode(Tail(bytes))

RECURSIVE universal_newlines(_)
\* open(path, "r") reads with newline=None: "\r\n" and a lone "\r" both
\* come out as "\n"
universal_newlines(text) ==
    IF text = <<>> THEN <<>>
    ELSE IF Head(text) = "CR"
    THEN IF Len(text) >= 2 /\ text[2] = "LF"
         THEN <<"LF">> \o universal_newlines(SubSeq(text, 3, Len(text)))
         ELSE <<"LF">> \o universal_newlines(Tail(text))
    ELSE <<Head(text)>> \o universal_newlines(Tail(text))

\* f.read() of a file opened with open(path, "r", encoding="utf-8")
read_text(bytes) == universal_newlines(decode(bytes))

---------------------------------------------------------------------------
(* the file system: files maps the absolute path of every regular file to
   its bytes *)

\* the absolute path the kernel resolves a path name to (no symbolic links)
Resolve(path) ==
    LET full == IF isabs(path) THEN path ELSE Cwd \o Sep \o path
    IN Sep \o Join(NormComps(Split(full, "/"), <<>>, 1), Sep)

IsFile(files, path) == Resolve(path) \in DOMAIN files

\* a directory: the root, the working directory, or an ancestor of a file
IsDir(files, path) ==
    LET q == Resolve(path)
    IN \/ q = Sep
       \/ q = Resolve(Cwd)
       \/ \E f \in DOMAIN files : StartsWith(f, q \o Sep)

\* os.path.exists
exists(files, path) == IsFile(files, path) \/ IsDir(files, path)

\* files with path removed (os.unlink)
Unlink(files, path) ==
    [f \in DOMAIN files \ {Resolve(path)} |-> files[f]]

\* files with a new or rewritten file
WriteFile(files, path, bytes) ==
    [f \in DOMAIN files \cup {Resolve(path)} |->
        IF f = Resolve(path) THEN bytes ELSE files[f]]

---------------------------------------------------------------------------
(* results *)

\* a call ended by an exception of type exc with message msg
Raise(exc, msg) ==
    [ok |-> FALSE, exc |-> exc, msg |-> <<msg>>, path |-> <<>>, text |-> <<>>]

\* a call that returned {"path": path, "text": text}
Return(path, text) ==
    [ok |-> TRUE, exc |-> "", msg |-> <<>>, path |-> path, text |-> text]

\* no call has ended yet
NoResult == [ok |-> FALSE, exc |-> "", msg |-> <<>>, path |-> <<>>, text |-> <<>>]

\* line 135: every exception raised inside _convert_to_markdown is replaced
\* by Exception("Error processing to Markdown: " + str(e))
Wrap(msg) ==
    [ok |-> FALSE, exc |-> "Exception",
     msg |-> <<"Error processing to Markdown: ", msg>>,
     path |-> <<>>, text |-> <<>>]

---------------------------------------------------------------------------
(* _get_markdown_file *)

ExtMd == <<".", "m", "d">>
ExtMarkdown == <<".", "m", "a", "r", "k", "d", "o", "w", "n">>

\* any(norm_path.endswith(ext) for ext in allowed_extensions)
allowed_extension(norm_path) ==
    EndsWith(norm_path, ExtMd) \/ EndsWith(norm_path, ExtMarkdown)

\* the check of lines 153-156 lets norm_path through
in_share_dir(norm_path, allowed_share_dir) ==
    commonpath(norm_path, allowed_share_dir) = allowed_share_dir

\* get_markdown_file with the existence check moved before the extension
\* check
get_markdown_file_exists_first(filepath, share, files) ==
    LET norm_path == normalize_path(filepath)
        allowed_share_dir == normalize_path(share)
    IN IF ~exists(files, norm_path)
       THEN Raise("FileNotFoundError", "File does not exist")
       ELSE IF ~allowed_extension(norm_path)
       THEN Raise("ValueError", "Required file is not a Markdown file.")
       ELSE IF Truthy(share) /\ commonpath_raises(norm_path, allowed_share_dir)
       THEN Raise("ValueError", "Can't mix absolute and relative paths")
       ELSE IF Truthy(share) /\ ~in_share_dir(norm_path, allowed_share_dir)
       THEN Raise("PermissionError", "Only files in allowed_share_dir are allowed.")
       ELSE IF ~IsFile(files, norm_path)
       THEN Raise("IsADirectoryError", "Is a directory")
       ELSE IF decode_raises(files[Resolve(norm_path)])
       THEN Raise("UnicodeDecodeError", "invalid start byte")
       ELSE Return(norm_path, read_text(files[Resolve(norm_path)]))

\* the result of _get_markdown_file(filepath) with MD_SHARE_DIR = share
\* (None when unset) on the file system files
get_markdown_file(filepath, share, files) ==
    LET norm_path == normalize_path(filepath)
        allowed_share_dir == normalize_path(share)
    IN IF ~allowed_extension(norm_path)
       THEN Raise("ValueError", "Required file is not a Markdown file.")
       ELSE IF ~exists(files, norm_path)
       THEN Raise("FileNotFoundError", "File does not exist")
       ELSE IF Truthy(share) /\ commonpath_raises(norm_path, allowed_share_dir)
       THEN Raise("ValueError", "Can't mix absolute and relative paths")
       ELSE IF Truthy(share) /\ ~in_share_dir(norm_path, allowed_share_dir)
       THEN Raise("PermissionError", "Only files in allowed_share_dir are allowed.")
       ELSE IF ~IsFile(files, norm_path)
       THEN Raise("IsADirectoryError", "Is a directory")
       ELSE IF decode_raises(files[Resolve(norm_path)])
       THEN Raise("UnicodeDecodeError", "invalid start byte")
       ELSE Return(norm_path, read_text(files[Resolve(norm_path)]))

---------------------------------------------------------------------------
(* urllib.parse and ipaddress *)

SchemeHttp == <<"h", "t", "t", "p", ":", "/", "/">>
SchemeHttps == <<"h", "t", "t", "p", "s", ":", "/", "/">>

\* allowed_scheme that asks only for some scheme separator
allowed_scheme_any(url) ==
    \E i \in 1..(Len(url) - 2) : SubSeq(url, i, i + 2) = <<":", "/", "/">>

\* url.startswith(("http://", "https://"))
allowed_scheme(url) == StartsWith(url, SchemeHttp) \/ StartsWith(url, SchemeHttps)

\* the smallest positive of the positions in S, or 0
FirstPos(S) ==
    IF S \ {0} = {} THEN 0 ELSE CHOOSE i \in S \ {0} : \A j \in S \ {0} : i <= j

\* urlparse(url).hostname or "" of a url that starts with http:// or
\* https:// and holds no "[" or "]": the network location runs from "//"
\* to the first "/", "?" or "#"; the user information up to the last "@"
\* and the port from the first ":" are dropped. The hosts of the model are
\* in lower case, which .hostname leaves as they are.
hostname(url) ==
    LET start == Find(url, "/", 1) + 2
        rest == SubSeq(url, start, Len(url))
        stop == FirstPos({Find(rest, "/", 1), Find(rest, "?", 1), Find(rest, "#", 1)})
        netloc == IF stop = 0 THEN rest ELSE SubSeq(rest, 1, stop - 1)
        hostinfo == SubSeq(netloc, RFind(netloc, "@") + 1, Len(netloc))
        colon == Find(hostinfo, ":", 1)
    IN IF colon = 0 THEN hostinfo ELSE SubSeq(hostinfo, 1, colon - 1)

Digits == <<"0", "1", "2", "3", "4", "5", "6", "7", "8", "9">>

IsDigit(c) == \E i \in 1..10 : Digits[i] = c

DigitValue(c) == (CHOOSE i \in 1..10 : Digits[i] = c) - 1

RECURSIVE DecimalValue(_)
\* int(s) of a string of decimal digits
DecimalValue(s) ==
    IF s = <<>> THEN 0
    ELSE 10 * DecimalValue(SubSeq(s, 1, Len(s) - 1)) + DigitValue(s[Len(s)])

\* ipaddress accepts an octet of one to three decimal digits, without a
\* leading zero, of value at most 255
valid_octet(s) ==
    /\ Len(s) \in 1..3
    /\ \A i \in 1..Len(s) : IsDigit(s[i])
    /\ (Len(s) > 1 => s[1] /= "0")
    /\ DecimalValue(s) <= 255

\* ipaddress.ip_address(hostname) does not raise ValueError: hostname is a
\* dotted quad. (A host without ":" is no IPv6 address.)
is_ip_literal(host) ==
    LET octets == Split(host, ".")
    IN Len(octets) = 4 /\ \A i \in 1..4 : valid_octet(octets[i])

\* the 32-bit address as its two 16-bit halves
ip_value(host) ==
    LET o == Split(host, ".")
    IN <<DecimalValue(o[1]) * 256 + DecimalValue(o[2]),
         DecimalValue(o[3]) * 256 + DecimalValue(o[4])>>

\* the network a.b.c.d/len: the halves of its base address and its prefix
\* length
Net(a, b, c, d, len) == <<a * 256 + b, c * 256 + d, len>>

RECURSIVE Pow2(_)
Pow2(n) == IF n = 0 THEN 1 ELSE 2 * Pow2(n - 1)

\* ip in net: the first len bits agree
InNet(ip, net) ==
    IF net[3] <= 16
    THEN ip[1] \div Pow2(16 - net[3]) = net[1] \div Pow2(16 - net[3])
    ELSE /\ ip[1] = net[1]
         /\ ip[2] \div Pow2(32 - net[3]) = net[2] \div Pow2(32 - net[3])

\* private_networks cut down to the three RFC 1918 blocks
private_networks_rfc1918 ==
    { Net(10, 0, 0, 0, 8), Net(172, 16, 0, 0, 12), Net(192, 168, 0, 0, 16) }

\* ipaddress._IPv4Constants._private_networks
private_networks ==
    { Net(0, 0, 0, 0, 8), Net(10, 0, 0, 0, 8), Net(127, 0, 0, 0, 8),
      Net(169, 254, 0, 0, 16), Net(172, 16, 0, 0, 12), Net(192, 0, 0, 0, 29),
      Net(192, 0, 0, 170, 31), Net(192, 0, 2, 0, 24), Net(192, 168, 0, 0, 16),
      Net(198, 18, 0, 0, 15), Net(198, 51, 100, 0, 24), Net(203, 0, 113, 0, 24),
      Net(240, 0, 0, 0, 4), Net(255, 255, 255, 255, 32) }

\* IPv4Address.is_private
is_private(ip) == \E net \in private_networks : InNet(ip, net)

\* _is_private_ip(hostname)
is_private_ip(host) ==
    IF is_ip_literal(host) THEN is_private(ip_value(host)) ELSE FALSE

---------------------------------------------------------------------------
(* tempfile *)

TmpDir == <<"/", "t", "m", "p">>

Md == <<"m", "d">>
Pdf == <<"p", "d", "f">>
DotPdf == <<".">> \o Pdf

\* the names tempfile may give a file of suffix "." + extension
TempNames(extension) ==
    { TmpDir \o <<"/", "t", Digits[i + 1], ".">> \o extension : i \in 1..NumTmpNames }

\* save_to_temp_file_name without the exclusive creation: a name in use
\* may be given again
save_to_temp_file_name_not_exclusive(files, suggested_extension, name) ==
    LET extension == IF Truthy(suggested_extension) THEN suggested_extension ELSE Md
    IN name \in TempNames(extension)

\* _save_to_temp_file(content, suggested_extension) returns name: the file
\* is created exclusively (a name no file or directory has), under the
\* suffix "." + (suggested_extension or "md")
save_to_temp_file_name(files, suggested_extension, name) ==
    LET extension == IF Truthy(suggested_extension) THEN suggested_extension ELSE Md
    IN name \in TempNames(extension) /\ ~exists(files, name)

\* lines 110-112
url_extension(url) == IF EndsWith(url, DotPdf) THEN Pdf ELSE None

---------------------------------------------------------------------------
(* state *)

VARIABLES
    files,          \* the file system: absolute path -> bytes
    md_share_dir,   \* os.environ.get("MD_SHARE_DIR"): None when unset
    req,            \* each call of _convert_to_markdown: position, locals, record
    ret             \* the latest call of _get_markdown_file: argument and result

vars == <<files, md_share_dir, req, ret>>

Requests == 1..NumRequests

\* A call of _convert_to_markdown. pc is its position: "idle" (not called),
\* "fetch" (awaiting _fetch_url_content, line 107), "convert" (before line
\* 123), "save" (before line 127), "done" (returned or raised, out is the
\* result). url, filepath, input_path, is_temporary, markdown_text are the
\* arguments and locals. fetches, engine, created, unlinked record what the
\* call did: the urls it sent a GET to, the paths it gave to
\* MarkItDown().convert, the transient input files it created, the files it
\* unlinked.
IdleRequest ==
    [pc |-> "idle", url |-> None, filepath |-> None, input_path |-> <<>>,
     is_temporary |-> FALSE, markdown_text |-> <<>>,
     fetches |-> <<>>, engine |-> <<>>, created |-> {}, unlinked |-> {},
     out |-> NoResult]

NoRetrieval == [path |-> None, out |-> NoResult]

\* the call q ends at line 135 with the wrapped exception
Fail(q, msg) == [q EXCEPT !.pc = "done", !.out = Wrap(msg)]

---------------------------------------------------------------------------
(* _convert_to_markdown; the steps after the await of line 107 run without
   suspension in the event loop, the model lets other calls interleave
   between them as a threaded dispatcher would *)

\* the messages of lines 98, 120 and 104
MsgScheme == "Only http:// and https:// URLs are allowed."
MsgNeither == "Either filepath or url must be provided"
MsgUnsafe == "Fetching {url} is potentially dangerous, aborting."

\* lines 91-107 and 117-120: the call up to the GET it awaits, or up to the
\* engine call for a local path, or to the exception
Call_after_validation(q) ==
    IF Truthy(q.url)
    THEN IF ~allowed_scheme(q.url)
         THEN Fail(q, MsgScheme)
         ELSE IF is_private_ip(hostname(q.url))
         THEN Fail(q, MsgUnsafe)
         ELSE [q EXCEPT !.pc = "fetch", !.fetches = Append(@, q.url)]
    ELSE IF Truthy(q.filepath)
    THEN [q EXCEPT !.pc = "convert", !.input_path = q.filepath]
    ELSE Fail(q, MsgNeither)

Call(r, url, filepath) ==
    /\ req[r].pc = "idle"
    /\ req' = [req EXCEPT ![r] =
                 Call_after_validation([req[r] EXCEPT !.url = url, !.filepath = filepath])]
    /\ UNCHANGED <<files, md_share_dir, ret>>

\* line 107 raises: a transport error, or raise_for_status on a non-2xx
\* response
FetchRaises(r) ==
    /\ req[r].pc = "fetch"
    /\ req' = [req EXCEPT ![r] = Fail(@, "httpx.HTTPError")]
    /\ UNCHANGED <<files, md_share_dir, ret>>

\* lines 107-116: the GET returns content, which is saved to the transient
\* input file name
FetchReturns(r, content, name) ==
    /\ req[r].pc = "fetch"
    /\ save_to_temp_file_name(files, url_extension(req[r].url), name)
    /\ files' = WriteFile(files, name, content)
    /\ req' = [req EXCEPT ![r] =
                 [@ EXCEPT !.pc = "convert", !.input_path = name,
                           !.is_temporary = TRUE, !.created = @ \cup {name}]]
    /\ UNCHANGED <<md_share_dir, ret>>

\* line 123 raises: the engine rejects the input
ConvertRaises(r) ==
    /\ req[r].pc = "convert"
    /\ req' = [req EXCEPT ![r] =
                 Fail([@ EXCEPT !.engine = Append(@, req[r].input_path)],
                      "markitdown: conversion failed")]
    /\ UNCHANGED <<files, md_share_dir, ret>>

\* lines 123-124: the engine reads input_path and returns text
ConvertReturns(r, text) ==
    /\ req[r].pc = "convert"
    /\ IsFile(files, req[r].input_path)
    /\ req' = [req EXCEPT ![r] =
                 [@ EXCEPT !.pc = "save", !.markdown_text = text,
                           !.engine = Append(@, req[r].input_path)]]
    /\ UNCHANGED <<files, md_share_dir, ret>>

\* line 127 raises: the text cannot be encoded, or (oserror) tempfile
\* cannot create the output file
SaveRaises(r, oserror) ==
    /\ req[r].pc = "save"
    /\ encode_raises(req[r].markdown_text) \/ oserror
    /\ req' = [req EXCEPT ![r] =
                 Fail(@, IF encode_raises(req[r].markdown_text)
                         THEN "UnicodeEncodeError: surrogates not allowed"
                         ELSE "OSError")]
    /\ UNCHANGED <<files, md_share_dir, ret>>

\* needs_cleanup without the test of is_temporary
needs_cleanup_any_input(q, written) == exists(written, q.input_path)

\* line 130: is_temporary and os.path.exists(input_path)
needs_cleanup(q, written) == q.is_temporary /\ exists(written, q.input_path)

\* lines 127-133: the output file output_path is written, the transient
\* input file is unlinked, the call returns
SaveReturns(r, output_path) ==
    LET q == req[r]
        written == WriteFile(files, output_path, encode(q.markdown_text))
        cleanup == needs_cleanup(q, written)
    IN /\ q.pc = "save"
       /\ ~encode_raises(q.markdown_text)
       /\ save_to_temp_file_name(files, Md, output_path)
       /\ files' = IF cleanup THEN Unlink(written, q.input_path) ELSE written
       /\ req' = [req EXCEPT ![r] =
                    [@ EXCEPT !.pc = "done",
                              !.unlinked = IF cleanup THEN @ \cup {q.input_path} ELSE @,
                              !.out = Return(output_path, q.markdown_text)]]
       /\ UNCHANGED <<md_share_dir, ret>>

\* _get_markdown_file(filepath), lines 137-162
Retrieve(filepath) ==
    /\ ret' = [path |-> filepath,
               out |-> get_markdown_file(filepath, md_share_dir, files)]
    /\ UNCHANGED <<files, md_share_dir, req>>

---------------------------------------------------------------------------
(* concurrent conversion and retrieval calls *)

LocalDocx == <<"r", ".", "d", "o", "c", "x">>
MissingDocx == <<"n", ".", "d", "o", "c", "x">>

UrlPage == <<"h", "t", "t", "p", ":", "/", "/", "e", ".", "c", "o", "m", "/", "a">>
UrlPdf == <<"h", "t", "t", "p", "s", ":", "/", "/", "e", ".", "c", "o", "m", "/", "a", ".", "p", "d", "f">>
UrlFtp == <<"f", "t", "p", ":", "/", "/", "e", ".", "c", "o", "m", "/", "a">>

\* the url arguments: absent, fetchable, of a refused scheme
URLs == {None, UrlPage, UrlPdf, UrlFtp}

\* the arguments <<url, filepath>> of the concurrent calls: neither, a
\* local file, a url
Arguments == { <<None, None>>, <<None, LocalDocx>>, <<UrlPage, None>> }

\* the filepath arguments: absent, a file of the working directory
FilePaths == {None, LocalDocx}

\* the body of a fetched response
Contents == {<<"a">>}

AllTempNames == TempNames(Md) \cup TempNames(Pdf)

\* the steps of the calls R of _convert_to_markdown, with arguments
\* <<url, filepath>> from A and engine results from T
Steps(R, A, T) ==
    \/ \E r \in R : /\ req[r].pc = "idle"
                     /\ \E a \in A : Call(r, a[1], a[2])
    \/ \E r \in R : FetchRaises(r)
    \/ \E r \in R, content \in Contents, name \in AllTempNames :
          FetchReturns(r, content, name)
    \/ \E r \in R : ConvertRaises(r)
    \/ \E r \in R, text \in T : ConvertReturns(r, text)
    \/ \E r \in R, oserror \in BOOLEAN : SaveRaises(r, oserror)
    \/ \E r \in R, output_path \in AllTempNames : SaveReturns(r, output_path)

\* the paths asked for beside the conversions: a temporary name and the
\* local input file
RetrievedBeside == { TmpDir \o <<"/", "t", "1", ".", "m", "d">>, LocalDocx }

InitFiles == [f \in {Resolve(LocalDocx)} |-> <<"a">>]

Init ==
    /\ files = InitFiles
    /\ md_share_dir = None
    /\ req = [r \in Requests |-> IdleRequest]
    /\ ret = NoRetrieval

Next ==
    \/ Steps(Requests, Arguments, {<<"a">>})
    \/ \E filepath \in RetrievedBeside : Retrieve(filepath)

Spec == Init /\ [][Next]_vars

---------------------------------------------------------------------------
(* one conversion call followed by retrievals of the files it left *)

TextChars == {"a", "U+E9", "CR", "LF", "U+D800"}

\* the texts the engine may return
Texts == UNION { [1..n -> TextChars] : n \in 0..MaxTextLen }

\* the share roots: unset, the directory of the temporary files, another
\* directory
ShareDirs == {None, TmpDir, Cwd}

InitRoundTrip ==
    /\ files = InitFiles
    /\ md_share_dir \in ShareDirs
    /\ req = [r \in Requests |-> IdleRequest]
    /\ ret = NoRetrieval

NextRoundTrip ==
    \/ Steps({1}, URLs \X FilePaths, Texts)
    \/ \E filepath \in DOMAIN files : Retrieve(filepath)

SpecRoundTrip == InitRoundTrip /\ [][NextRoundTrip]_vars

---------------------------------------------------------------------------
(* one conversion call over the urls of the safety gate *)

RECURSIVE Decimal(_)
\* str(n)
Decimal(n) ==
    IF n < 10 THEN <<Digits[n + 1]>> ELSE Decimal(n \div 10) \o <<Digits[(n % 10) + 1]>>

FirstOctets == {8, 10, 127, 169, 172, 192}
SecondOctets == {0, 16, 31, 32, 168, 254}

\* the hosts a.b.0.1, two DNS names, and two spellings ipaddress refuses
GateHosts ==
    { Decimal(a) \o <<".">> \o Decimal(b) \o <<".", "0", ".", "1">> :
        a \in FirstOctets, b \in SecondOctets }
    \cup { <<"e", ".", "c", "o", "m">>, <<"l", "o", "c", "a", "l", "h", "o", "s", "t">>, <<"0", "1", "0", ".", "0", ".", "0", ".", "1">>, <<"2", "1", "3", "0", "7", "0", "6", "4", "3", "3">> }

GateSchemes == { SchemeHttp, SchemeHttps, <<"f", "t", "p", ":", "/", "/">>, <<>> }
GateUserInfo == { <<>>, <<"u", "@">> }
GatePorts == { <<>>, <<":", "8">> }
GateTails == { <<>>, <<"/", "a">>, <<"/", "a", ".", "p", "d", "f">>, <<"/", "a", ".", "p", "d", "f", "?", "q">>, <<"/", "a", "?", "q", ".", "p", "d", "f">>, <<"/", "a", ".", "p", "d", "f", "#", "f">> }

GateURLs ==
    { scheme \o user \o host \o port \o tail :
        scheme \in GateSchemes, user \in GateUserInfo, host \in GateHosts,
        port \in GatePorts, tail \in GateTails }
    \cup {None, <<>>}

GateFilePaths == {None, MissingDocx}

NextGate == Steps({1}, GateURLs \X GateFilePaths, {<<"a">>})

SpecGate == Init /\ [][NextGate]_vars

---------------------------------------------------------------------------
(* retrieval calls over path names *)

NameMd == <<"m", "d">>
NameMdx == <<"m", "d", "x">>
NameFileMd == <<"f", ".", "m", "d">>
NameFileMarkdown == <<"f", ".", "m", "a", "r", "k", "d", "o", "w", "n">>
NameFileTxt == <<"f", ".", "t", "x", "t">>

DirNames == { NameMd, NameMdx, ParDir }
FileNames == { NameFileMd, NameFileMarkdown, NameFileTxt }

\* the path names of a file name under up to MaxDepth directory names:
\* relative, absolute, and under "~"
RetrievePaths ==
    { prefix \o Join(dirs \o <<name>>, Sep) :
        prefix \in { <<>>, Sep, <<"~", "/">> },
        dirs \in UNION { [1..n -> DirNames] : n \in 0..MaxDepth },
        name \in FileNames }

\* the files that exist
RetrieveFiles ==
    [f \in { <<"/", "m", "d", "/", "f", ".", "m", "d">>, <<"/", "m", "d", "x", "/", "f", ".", "m", "d">>, <<"/", "f", ".", "m", "d">>, <<"/", "m", "d", "/", "f", ".", "t", "x", "t">>, <<"/", "m", "d", "/", "m", "d", "/", "f", ".", "m", "a", "r", "k", "d", "o", "w", "n">> } |-> <<"a", "CR", "LF">>]

\* the share roots: unset, empty, a directory (also with a trailing slash),
\* a relative path, the home directory
RetrieveShareDirs ==
    { None, <<>>, <<"/", "m", "d">>, <<"/", "m", "d", "/">>, <<"m", "d">>, <<"~">> }

InitRetrieve ==
    /\ files = RetrieveFiles
    /\ md_share_dir \in RetrieveShareDirs
    /\ req = [r \in Requests |-> IdleRequest]
    /\ ret = NoRetrieval

NextRetrieve == \E filepath \in RetrievePaths : Retrieve(filepath)

SpecRetrieve == InitRetrieve /\ [][NextRetrieve]_vars

---------------------------------------------------------------------------
(* claims about retrieval, under SpecRetrieve *)

\* the components of the absolute path a path name resolves to
Components(path) == Filter(Split(Resolve(path), "/"), KeepComp)

\* path is root itself or below it, by whole path components
Under(path, root) ==
    LET a == Components(path)
        b == Components(root)
    IN Len(a) >= Len(b) /\ SubSeq(a, 1, Len(b)) = b

Retrieved == ret.path /= None

\* C2: with a share root configured, a retrieval succeeds only if the
\* normalized path is the share root or below it by whole components, and
\* the retrieval of every other existing markdown path fails with
\* PermissionError.
C2_ShareRootContainment ==
    (Retrieved /\ Truthy(md_share_dir)) =>
        LET norm_path == normalize_path(ret.path)
            root == normalize_path(md_share_dir)
        IN /\ ret.out.ok => Under(norm_path, root)
           /\ ( /\ EndsWith(norm_path, ExtMd) \/ EndsWith(norm_path, ExtMarkdown)
                /\ exists(files, norm_path)
                /\ ~Under(norm_path, root) )
              => (~ret.out.ok /\ ret.out.exc = "PermissionError")

\* C7: the retrieval of a path whose normalized form ends neither in .md
\* nor in .markdown fails with the ValueError of the extension check,
\* whether or not the file exists and whether or not a share root is set.
C7_ExtensionCheckedFirst ==
    Retrieved =>
        LET norm_path == normalize_path(ret.path)
        IN (~EndsWith(norm_path, ExtMd) /\ ~EndsWith(norm_path, ExtMarkdown))
           => ret.out = Raise("ValueError", "Required file is not a Markdown file.")

\* a file that exists, outside the configured share root, without a
\* markdown extension, was asked for and refused for its extension
C7_Witness ==
    /\ Retrieved
    /\ Truthy(md_share_dir)
    /\ ~EndsWith(normalize_path(ret.path), ExtMd)
    /\ ~EndsWith(normalize_path(ret.path), ExtMarkdown)
    /\ IsFile(files, normalize_path(ret.path))
    /\ ~Under(normalize_path(ret.path), normalize_path(md_share_dir))
    /\ ret.out.exc = "ValueError"

---------------------------------------------------------------------------
(* claims about the safety gate, under SpecGate *)

\* the call r has ended with the error the specification names InvalidInput
InvalidInput(r) ==
    /\ req[r].pc = "done"
    /\ ~req[r].out.ok
    /\ req[r].out.msg[2] \in {MsgScheme, MsgNeither}

\* the call r has ended with the error the specification names UnsafeTarget
UnsafeTarget(r) ==
    /\ req[r].pc = "done"
    /\ ~req[r].out.ok
    /\ req[r].out.msg[2] = MsgUnsafe

\* the call r has sent no GET, created no file and not called the engine
NothingDone(r) ==
    /\ req[r].fetches = <<>>
    /\ req[r].created = {}
    /\ req[r].engine = <<>>

\* a remote request: a url is given, and either it is not empty or no
\* filepath comes with it
RemoteRequest(r) ==
    /\ req[r].pc /= "idle"
    /\ req[r].url /= None
    /\ req[r].url /= <<>> \/ ~Truthy(req[r].filepath)

\* C3: a request whose url starts neither with http:// nor with https://
\* ends with InvalidInput, having sent no GET, created no transient file
\* and not called the engine.
C3_BadSchemeRejectedBeforeFetch ==
    \A r \in Requests :
        ( /\ RemoteRequest(r)
          /\ ~StartsWith(req[r].url, SchemeHttp)
          /\ ~StartsWith(req[r].url, SchemeHttps) )
        => (InvalidInput(r) /\ NothingDone(r))

\* an ftp:// url of a public address was refused
C3_Witness ==
    \E r \in Requests :
        /\ StartsWith(req[r].url, <<"f", "t", "p", ":", "/", "/", "8", ".">>)
        /\ InvalidInput(r)
        /\ req[r].out.msg[2] = MsgScheme

\* the four octets of the dotted quad that is the host of url, or <<>>
HostOctets(url) ==
    LET o == Split(hostname(url), ".")
    IN IF Len(o) = 4 /\ \A i \in 1..4 : valid_octet(o[i])
       THEN [i \in 1..4 |-> DecimalValue(o[i])]
       ELSE <<>>

\* RFC 1918 private, loopback (127/8) or link-local (169.254/16)
PrivateLoopbackOrLinkLocal(o) ==
    \/ o[1] = 10
    \/ o[1] = 172 /\ o[2] \in 16..31
    \/ o[1] = 192 /\ o[2] = 168
    \/ o[1] = 127
    \/ o[1] = 169 /\ o[2] = 254

\* in none of the blocks of the IANA IPv4 special-purpose registry, nor
\* multicast
PublicAddress(o) ==
    /\ o[1] \notin {0, 10, 127}
    /\ ~(o[1] = 100 /\ o[2] \in 64..127)
    /\ ~(o[1] = 169 /\ o[2] = 254)
    /\ ~(o[1] = 172 /\ o[2] \in 16..31)
    /\ ~(o[1] = 192 /\ o[2] = 0 /\ o[3] \in {0, 2})
    /\ ~(o[1] = 192 /\ o[2] = 88 /\ o[3] = 99)
    /\ ~(o[1] = 192 /\ o[2] = 168)
    /\ ~(o[1] = 198 /\ o[2] \in {18, 19})
    /\ ~(o[1] = 198 /\ o[2] = 51 /\ o[3] = 100)
    /\ ~(o[1] = 203 /\ o[2] = 0 /\ o[3] = 113)
    /\ o[1] < 224

HttpRequest(r) ==
    /\ req[r].pc /= "idle"
    /\ req[r].url /= None
    /\ StartsWith(req[r].url, SchemeHttp) \/ StartsWith(req[r].url, SchemeHttps)

\* C4: a request for an http(s) url whose host is a literal private,
\* loopback or link-local address ends with UnsafeTarget and sends no GET;
\* a request for an http(s) url whose host is a literal public address
\* passes the gate: the GET for that url is sent.
C4_PrivateAddressGate ==
    \A r \in Requests :
        (HttpRequest(r) /\ HostOctets(req[r].url) /= <<>>) =>
            LET o == HostOctets(req[r].url)
            IN /\ PrivateLoopbackOrLinkLocal(o) => (UnsafeTarget(r) /\ NothingDone(r))
               /\ PublicAddress(o) => req[r].fetches = <<req[r].url>>

\* a link-local address behind user information and a port was refused
C4_Witness ==
    \E r \in Requests :
        /\ HttpRequest(r)
        /\ HostOctets(req[r].url) = <<169, 254, 0, 1>>
        /\ Find(req[r].url, "@", 1) > 0
        /\ EndsWith(hostname(req[r].url) \o <<":", "8">>, <<"1", ":", "8">>)
        /\ UnsafeTarget(r)
        /\ NothingDone(r)

\* the public address 172.32.0.1, next to the private block 172.16/12, was
\* fetched and converted
C4_WitnessPublic ==
    \E r \in Requests :
        /\ HttpRequest(r)
        /\ HostOctets(req[r].url) = <<172, 32, 0, 1>>
        /\ req[r].fetches = <<req[r].url>>
        /\ req[r].pc = "done"
        /\ req[r].out.ok

\* the path component of an http(s) url: from the end of the network
\* location to the first "?" or "#"
UrlPath(url) ==
    LET start == Find(url, "/", 1) + 2
        rest == SubSeq(url, start, Len(url))
        slash == FirstPos({Find(rest, "/", 1), Find(rest, "?", 1), Find(rest, "#", 1)})
        after == IF slash = 0 THEN <<>> ELSE SubSeq(rest, slash, Len(rest))
        stop == FirstPos({Find(after, "?", 1), Find(after, "#", 1)})
    IN IF stop = 0 THEN after ELSE SubSeq(after, 1, stop - 1)

\* C9: the transient input file of a fetched url has the extension pdf
\* exactly when the path component of the url ends in .pdf, also when a
\* query string or a fragment follows the path, and the extension md
\* otherwise.
C9_PdfExtensionFromUrlPath ==
    \A r \in Requests :
        \A name \in req[r].created :
            /\ EndsWith(name, DotPdf) <=> EndsWith(UrlPath(req[r].url), DotPdf)
            /\ ~EndsWith(name, DotPdf) => EndsWith(name, <<".">> \o Md)

---------------------------------------------------------------------------
(* claims about conversion calls, under Spec *)

Done(r) == req[r].pc = "done"

\* C1: when a call that created a transient input file has ended, by
\* return or by exception, that file no longer exists.
C1_TransientGoneOnEveryExit ==
    \A r \in Requests :
        Done(r) =>
            \A name \in req[r].created :
                name \in req[r].unlinked \/ ~IsFile(files, name)

\* C6: a call with both url and filepath populated, or with neither, ends
\* with InvalidInput, having sent no GET and not called the engine.
C6_ExactlyOneSource ==
    \A r \in Requests :
        (req[r].pc /= "idle" /\ (Truthy(req[r].url) <=> Truthy(req[r].filepath)))
        => (InvalidInput(r) /\ NothingDone(r))

\* a local request: a filepath and no url
LocalRequest(r) ==
    /\ req[r].pc /= "idle"
    /\ ~Truthy(req[r].url)
    /\ Truthy(req[r].filepath)

\* C8: a local request sends no GET and creates no transient input file;
\* the engine is called on the given path itself; the call unlinks
\* nothing, and the local input file is there, unchanged, whatever the
\* outcome of this call and of the calls running beside it.
C8_LocalSourceUntouched ==
    \A r \in Requests :
        LocalRequest(r) =>
            /\ req[r].fetches = <<>>
            /\ req[r].created = {}
            /\ ~req[r].is_temporary
            /\ req[r].unlinked = {}
            /\ req[r].engine \in {<<>>, <<req[r].filepath>>}
            /\ req[r].pc \in {"save", "done"} => req[r].engine = <<req[r].filepath>>
            /\ \A f \in DOMAIN InitFiles :
                   f = Resolve(req[r].filepath) =>
                       (f \in DOMAIN files /\ files[f] = InitFiles[f])

\* a local conversion has returned while another call's conversion failed
C8_Witness ==
    \E r, r2 \in Requests :
        /\ LocalRequest(r)
        /\ Done(r)
        /\ req[r].out.ok
        /\ req[r].engine = <<LocalDocx>>
        /\ IsFile(files, LocalDocx)
        /\ Done(r2)
        /\ ~req[r2].out.ok
        /\ req[r2].created /= {}

\* the transient input file of the call r is held: created and not yet
\* cleaned up
HoldsTransient(r) ==
    /\ req[r].is_temporary
    /\ ~(Done(r) /\ req[r].out.ok)

\* the call r took this step
Stepped(r) == req'[r] /= req[r]

\* C10: under every interleaving, a step removes or rewrites no file but
\* the transient input file that the call taking the step created itself;
\* and the output file of every call that has returned exists, holds the
\* returned text, and is no transient input file held by any call.
C10_OnlyOwnTransientDeleted ==
    [][ /\ \A f \in DOMAIN files :
              (f \notin DOMAIN files' \/ files'[f] /= files[f]) =>
                  \E r \in Requests :
                      /\ Stepped(r)
                      /\ req[r].is_temporary
                      /\ f = Resolve(req[r].input_path)
                      /\ f \in req[r].created
                      /\ f \notin DOMAIN files'
        /\ \A r \in Requests :
              (req'[r].pc = "done" /\ req'[r].out.ok) =>
                  /\ Resolve(req'[r].out.path) \in DOMAIN files'
                  /\ files'[Resolve(req'[r].out.path)] = encode(req'[r].out.text)
                  /\ \A r2 \in Requests :
                        (req'[r2].is_temporary /\ ~(req'[r2].pc = "done" /\ req'[r2].out.ok))
                        => req'[r2].input_path /= req'[r].out.path
      ]_vars

\* one call has returned, its transient input file gone and its output
\* file in place, while another call still holds its transient input file
C10_Witness ==
    \E r, r2 \in Requests :
        /\ Done(r)
        /\ req[r].out.ok
        /\ req[r].created /= {}
        /\ req[r].unlinked = req[r].created
        /\ IsFile(files, req[r].out.path)
        /\ HoldsTransient(r2)
        /\ req[r2].pc = "save"
        /\ IsFile(files, req[r2].input_path)

---------------------------------------------------------------------------
(* the round trip, under SpecRoundTrip *)

\* C5: after a conversion has returned the text T and the path P, and as
\* long as the file at P holds what the conversion wrote, a retrieval of
\* P returns a text equal to T.
C5_RoundTrip ==
    [][ \A r \in Requests :
            ( /\ ret' /= ret
              /\ Done(r)
              /\ req[r].out.ok
              /\ ret'.path = req[r].out.path
              /\ IsFile(files, req[r].out.path)
              /\ files[Resolve(req[r].out.path)] = encode(req[r].out.text) )
            => (ret'.out.ok /\ ret'.out.text = req[r].out.text)
      ]_vars

====
